---- MODULE Spec2Model ----
(***************************************************************************)
(* Authorization and session-token subsystem of grist-mcp: the static      *)
(* credential store (config.py), the Authenticator (auth.py), the          *)
(* SessionTokenManager (session.py), session-token issuance                *)
(* (tools/session.py, server.py) and the HTTP proxy (proxy.py, main.py).   *)
(***************************************************************************)
EXTENDS Integers, Sequences, FiniteSets, TLC

VARIABLES
    config,     \* which Config load_config returned to create_app
    conns,      \* SSE connections: connection id -> the Agent bound at connect time
    tokens,     \* SessionTokenManager._tokens: token string -> SessionToken
    issued,     \* history: token string -> the issuing Agent and the ttl it asked for
    now,        \* datetime.now(timezone.utc), in seconds
    last        \* the outcome of the last operation

vars == <<config, conns, tokens, issued, now, last>>

-----------------------------------------------------------------------------
(* Bounds of the model *)

MaxTokens == 1      \* session tokens issued in one run
MaxTicks == 1       \* clock steps in one run

-----------------------------------------------------------------------------
(* session.py *)

MAX_TTL_SECONDS == 3600
DEFAULT_TTL_SECONDS == 300

(* One clock step; half the maximum lifetime, so that the default lifetime  *)
(* has passed after one step and a lifetime of one step is exactly reached. *)
TickSeconds == MAX_TTL_SECONDS \div 2

None == "None"          \* Python's None / an absent value
OK == "ok"              \* a call that returned without raising

(* An optional integer argument: given with a value, or left out. *)
Given(value) == [given |-> TRUE, value |-> value]
Omitted == [given |-> FALSE, value |-> 0]

-----------------------------------------------------------------------------
(* config.py: the credential store *)

TokenScope(document, permissions) ==
    [document |-> document, permissions |-> permissions]

Token(token, name, scope) ==
    [token |-> token, name |-> name, scope |-> scope]

(* Two agents with distinct tokens; "budget" is configured and in the scope *)
(* of the first agent only.                                                 *)
ConfigDistinct ==
    [documents |-> {"sales", "budget"},
     tokens |-> <<
        Token("tok-a", "acct-bot",
              <<TokenScope("sales", <<"read", "write">>),
                TokenScope("budget", <<"schema">>)>>),
        Token("tok-b", "reader",
              <<TokenScope("sales", <<"read">>)>>) >>]

(* What load_config accepts without complaint: two entries sharing a token  *)
(* string, a scope listing a document twice, and a scope naming a document  *)
(* ("budget") that the document registry does not hold.                     *)
ConfigDuplicates ==
    [documents |-> {"sales"},
     tokens |-> <<
        Token("tok-a", "first",
              <<TokenScope("sales", <<"read">>)>>),
        Token("tok-a", "second",
              <<TokenScope("sales", <<"schema">>),
                TokenScope("sales", <<"read", "write">>),
                TokenScope("budget", <<"write">>)>>) >>]

Configs == [distinct |-> ConfigDistinct, duplicates |-> ConfigDuplicates]

ConfigNames == DOMAIN Configs

-----------------------------------------------------------------------------
(* auth.py *)

Permission == {"read", "write", "schema"}

InList(x, list) == \E i \in DOMAIN list : list[i] = x

TokenStrings(cfg) == {cfg.tokens[i].token : i \in DOMAIN cfg.tokens}

(* {t.token: t for t in config.tokens}: a later entry replaces an earlier   *)
(* one with the same key.                                                   *)
token_map(cfg) ==
    [s \in TokenStrings(cfg) |->
        LET idx == {i \in DOMAIN cfg.tokens : cfg.tokens[i].token = s}
        IN  cfg.tokens[CHOOSE i \in idx : \A j \in idx : j <= i]]

Agent(token, name, token_obj) ==
    [token |-> token, name |-> name, token_obj |-> token_obj]

(* Authenticator.authenticate: the Agent, or the AuthError raised. *)
authenticate(cfg, token) ==
    IF token \notin DOMAIN token_map(cfg)
    THEN [ok |-> FALSE, error |-> "Invalid token"]
    ELSE [ok |-> TRUE,
          agent |-> Agent(token, token_map(cfg)[token].name, token_map(cfg)[token])]

(* The agents authenticate can return. *)
Agents(cfg) == {authenticate(cfg, s).agent : s \in TokenStrings(cfg)}

(* A plausible slip: the loop without its break, so the last match wins. *)
scope_entry_last(scope, document) ==
    LET idx == {i \in DOMAIN scope : scope[i].document = document}
    IN  IF idx = {} THEN 0 ELSE CHOOSE i \in idx : \A j \in idx : j <= i

(* The scan of authorize: index of the first scope entry for the document,  *)
(* 0 when the loop ends without a match.                                    *)
scope_entry(scope, document) ==
    LET idx == {i \in DOMAIN scope : scope[i].document = document}
    IN  IF idx = {} THEN 0 ELSE CHOOSE i \in idx : \A j \in idx : i <= j

(* A plausible slip: permission levels read as a hierarchy, schema above   *)
(* write above read.                                                        *)
authorize_hierarchical(agent, document, permission) ==
    LET i == scope_entry(agent.token_obj.scope, document)
        granted == IF i = 0 THEN <<>> ELSE agent.token_obj.scope[i].permissions
        implied == IF permission = "read" THEN {"read", "write", "schema"}
                   ELSE IF permission = "write" THEN {"write", "schema"}
                   ELSE {permission}
    IN  IF i = 0 THEN "Document not in scope"
        ELSE IF ~\E q \in implied : InList(q, granted)
             THEN "Permission denied"
             ELSE OK

(* A plausible slip: a permission handed to a session token is taken out of *)
(* the agent's scope for as long as the token is stored.                    *)
authorize_minus_delegated(agent, document, permission) ==
    LET i == scope_entry(agent.token_obj.scope, document)
    IN  IF i = 0 THEN "Document not in scope"
        ELSE IF ~InList(permission, agent.token_obj.scope[i].permissions)
             THEN "Permission denied"
        ELSE IF \E t \in DOMAIN tokens :
                    /\ tokens[t].agent_name = agent.name
                    /\ tokens[t].document = document
                    /\ InList(permission, tokens[t].permissions)
             THEN "Permission denied"
             ELSE OK

(* Authenticator.authorize: OK, or the message of the AuthError raised. *)
authorize(agent, document, permission) ==
    LET i == scope_entry(agent.token_obj.scope, document)
    IN  IF i = 0 THEN "Document not in scope"
        ELSE IF ~InList(permission, agent.token_obj.scope[i].permissions)
             THEN "Permission denied"
             ELSE OK

(* Authenticator.get_accessible_documents, and list_documents of            *)
(* tools/discovery.py: name and permissions of every scope entry, in order. *)
get_accessible_documents(agent) ==
    [i \in DOMAIN agent.token_obj.scope |->
        [name |-> agent.token_obj.scope[i].document,
         permissions |-> agent.token_obj.scope[i].permissions]]

(* Authenticator.get_document: OK, or the message of the AuthError raised. *)
get_document(cfg, document_name) ==
    IF document_name \notin cfg.documents
    THEN "Document '" \o document_name \o "' not configured"
    ELSE OK

-----------------------------------------------------------------------------
(* session.py: SessionTokenManager *)

SessionToken(token, document, permissions, agent_name, created_at, expires_at) ==
    [token |-> token, document |-> document, permissions |-> permissions,
     agent_name |-> agent_name, created_at |-> created_at,
     expires_at |-> expires_at]

Min(a, b) == IF a < b THEN a ELSE b

(* A plausible slip: the requested ttl used without the cap. *)
effective_ttl_uncapped(ttl_seconds) ==
    IF ttl_seconds.given THEN ttl_seconds.value ELSE DEFAULT_TTL_SECONDS

(* effective_ttl = min(ttl_seconds, MAX_TTL_SECONDS), with the default of   *)
(* the signature when the argument is left out.                             *)
effective_ttl(ttl_seconds) ==
    Min(IF ttl_seconds.given THEN ttl_seconds.value ELSE DEFAULT_TTL_SECONDS,
        MAX_TTL_SECONDS)

(* A plausible slip: the token string without its prefix. *)
token_str_no_prefix(random) == ToString(random)

(* f"sess_{secrets.token_urlsafe(32)}": the random part is a fresh value;   *)
(* a collision of two 256-bit random values is not modelled.                *)
token_str(random) == "sess_" \o ToString(random)

(* A plausible slip: the record is built from a field shared by the tasks,  *)
(* which holds the agent of the call before this one.                       *)
create_token_shared_agent(agent_name, document, permissions, ttl_seconds, random, clock) ==
    SessionToken(token_str(random), document, permissions,
                 IF "agent_name" \in DOMAIN last THEN last.agent_name
                 ELSE agent_name,
                 clock, clock + effective_ttl(ttl_seconds))

(* SessionTokenManager.create_token: the record it builds and returns. *)
create_token(agent_name, document, permissions, ttl_seconds, random, clock) ==
    SessionToken(token_str(random), document, permissions, agent_name,
                 clock, clock + effective_ttl(ttl_seconds))

(* A plausible slip: the map is rebuilt around the new record. *)
store_token_replacing(toks, session) == (session.token :> session)

(* self._tokens[token_str] = session *)
store_token(toks, session) == (session.token :> session) @@ toks

-----------------------------------------------------------------------------
(* tools/session.py: request_session_token *)

(* server.py call_tool: arguments.get("ttl_seconds", 300). *)
TOOL_DEFAULT_TTL == 300

tool_ttl(ttl_seconds) ==
    IF ttl_seconds.given THEN ttl_seconds ELSE Given(TOOL_DEFAULT_TTL)

(* A plausible slip: an invalid permission string is skipped, not refused. *)
RECURSIVE check_permissions_skip_invalid(_, _, _, _)
check_permissions_skip_invalid(agent, document, permissions, i) ==
    IF i > Len(permissions) THEN OK
    ELSE IF permissions[i] \notin Permission
         THEN check_permissions_skip_invalid(agent, document, permissions, i + 1)
         ELSE LET r == authorize(agent, document, permissions[i])
              IN  IF r # OK THEN r
                  ELSE check_permissions_skip_invalid(agent, document, permissions, i + 1)

(* A plausible slip: only the first requested permission is checked. *)
check_permissions_first_only(agent, document, permissions, i) ==
    IF i > Len(permissions) THEN OK
    ELSE IF permissions[i] \notin Permission
         THEN "Invalid permission: " \o permissions[i]
         ELSE authorize(agent, document, permissions[i])

(* A plausible slip: every string is parsed before any is authorized. *)
check_permissions_parse_all_first(agent, document, permissions, i) ==
    LET bad == {k \in DOMAIN permissions : k >= i /\ permissions[k] \notin Permission}
    IN  IF bad # {}
        THEN "Invalid permission: "
                \o permissions[CHOOSE k \in bad : \A j \in bad : k <= j]
        ELSE check_permissions_skip_invalid(agent, document, permissions, i)

(* The loop over the requested permissions, from element i on: OK when      *)
(* every element parses and is authorized, else the message of the first    *)
(* AuthError raised.                                                        *)
RECURSIVE check_permissions(_, _, _, _)
check_permissions(agent, document, permissions, i) ==
    IF i > Len(permissions) THEN OK
    ELSE IF permissions[i] \notin Permission
         THEN "Invalid permission: " \o permissions[i]
         ELSE LET r == authorize(agent, document, permissions[i])
              IN  IF r # OK THEN r
                  ELSE check_permissions(agent, document, permissions, i + 1)

-----------------------------------------------------------------------------
(* session.py as main.py uses it: validate_token *)

NoSession == [token |-> None]

(* SessionTokenManager.validate_token: the stored record, or NoSession (the *)
(* None of the code) for a string that is no key of the map and for a       *)
(* record whose expires_at has passed. The map is left as it is.            *)
validate_token(toks, token, clock) ==
    IF token \notin DOMAIN toks THEN NoSession
    ELSE IF toks[token].expires_at < clock THEN NoSession
    ELSE toks[token]

-----------------------------------------------------------------------------
(* proxy.py *)

METHODS_REQUIRING_TABLE ==
    {"get_records", "describe_table", "add_records", "update_records",
     "delete_records", "add_column", "modify_column", "delete_column"}

ReadMethods == {"list_tables", "describe_table", "get_records", "sql_query"}
WriteMethods == {"add_records", "update_records", "delete_records"}
SchemaMethods == {"create_table", "add_column", "modify_column", "delete_column"}

KnownMethods == ReadMethods \cup WriteMethods \cup SchemaMethods

(* A plausible slip: delete_records filed under the read methods. *)
METHOD_PERMISSIONS_delete_as_read(method) ==
    IF method \in ReadMethods \cup {"delete_records"} THEN "read"
    ELSE IF method \in WriteMethods THEN "write"
    ELSE IF method \in SchemaMethods THEN "schema"
    ELSE None

(* METHOD_PERMISSIONS.get(method): the required permission, None when the   *)
(* method is no key of the table.                                           *)
METHOD_PERMISSIONS(method) ==
    IF method \in ReadMethods THEN "read"
    ELSE IF method \in WriteMethods THEN "write"
    ELSE IF method \in SchemaMethods THEN "schema"
    ELSE None

(* The methods whose branch of the dispatcher checks request fields for     *)
(* None before it calls the client.                                         *)
MethodsWithRequiredFields ==
    {"sql_query", "add_records", "update_records", "delete_records",
     "create_table", "add_column", "modify_column", "delete_column"}

(* A JSON object body: its "method" (None when the key is absent), whether  *)
(* it has a "table" key, and whether the method's other fields are there.   *)
Body(method, has_table, has_fields) ==
    [kind |-> "object", method |-> method, has_table |-> has_table,
     has_fields |-> has_fields]

(* A plausible slip: the table requirement left out of the parse. *)
parse_proxy_request_method_only(body) ==
    IF body.method = None THEN "INVALID_REQUEST" ELSE OK

(* parse_proxy_request: OK, or the code of the ProxyError raised. *)
parse_proxy_request(body) ==
    IF body.method = None THEN "INVALID_REQUEST"
    ELSE IF body.method \in METHODS_REQUIRING_TABLE /\ ~body.has_table
         THEN "INVALID_REQUEST"
         ELSE OK

(* The outcome of a dispatch: the code of the ProxyError raised (OK when a  *)
(* result is returned), the type of an exception that is no ProxyError,     *)
(* the client calls made, each as <<document, method>>, and the steps the   *)
(* dispatcher went through, in the order it took them.                      *)
Outcome(code, raised, upstream, steps) ==
    [code |-> code, raised |-> raised, upstream |-> upstream, steps |-> steps]

(* A plausible slip: the check asks the Authenticator about the agent the   *)
(* token names, instead of reading the token's own permission list.         *)
permission_check_by_store(method, session, cfg) ==
    LET named == {a \in Agents(cfg) : a.name = session.agent_name}
    IN  IF METHOD_PERMISSIONS(method) = None THEN "INVALID_REQUEST"
        ELSE IF ~\E a \in named :
                    authorize(a, session.document, METHOD_PERMISSIONS(method)) = OK
             THEN "UNAUTHORIZED"
             ELSE OK

(* A plausible slip: the membership test made before the lookup result is  *)
(* looked at, so an unknown method is refused as a permission failure.      *)
permission_check_before_lookup(method, session, cfg) ==
    IF ~InList(METHOD_PERMISSIONS(method), session.permissions)
    THEN "UNAUTHORIZED"
    ELSE IF METHOD_PERMISSIONS(method) = None THEN "INVALID_REQUEST"
    ELSE OK

(* A plausible slip: the check asks whether the token carries any           *)
(* permission, not whether it carries the required one.                     *)
permission_check_nonempty(method, session, cfg) ==
    IF METHOD_PERMISSIONS(method) = None THEN "INVALID_REQUEST"
    ELSE IF session.permissions = <<>> THEN "UNAUTHORIZED"
    ELSE OK

(* The permission check of dispatch_proxy_request: it reads the method and  *)
(* the permission list of the session token, nothing else.                  *)
permission_check(method, session, cfg) ==
    IF METHOD_PERMISSIONS(method) = None THEN "INVALID_REQUEST"
    ELSE IF ~InList(METHOD_PERMISSIONS(method), session.permissions)
         THEN "UNAUTHORIZED"
         ELSE OK

(* A plausible slip: a document named by the request is preferred to the    *)
(* document of the token.                                                   *)
client_document_from_request(request, session) ==
    IF "document" \in DOMAIN request THEN request.document ELSE session.document

(* The document the client is built from: auth.get_document(session.document) *)
(* in the dispatcher and in both attachment handlers, whatever the request  *)
(* holds.                                                                   *)
client_document(request, session) == session.document

(* A plausible slip: no except clause, the client's exception propagates. *)
upstream_error_propagated(exception) == [code |-> None, raised |-> exception]

(* The except clauses of the dispatcher's try block: what leaves the        *)
(* dispatcher when the client operation raised an exception of the type.    *)
upstream_error(exception) ==
    IF exception = "ProxyError"
    THEN [code |-> "INVALID_REQUEST", raised |-> None]
    ELSE [code |-> "GRIST_ERROR", raised |-> None]

(* What GristClient raises: httpx.HTTPStatusError from raise_for_status,    *)
(* ValueError from _validate_sql_query.                                     *)
ClientException(method) ==
    IF method = "sql_query" THEN "ValueError" ELSE "HTTPStatusError"

(* A plausible slip: the required fields are looked at before the          *)
(* permission.                                                              *)
dispatch_proxy_request_fields_first(request, session, cfg, upstream_raises) ==
    LET check == permission_check(request.method, session, cfg)
        fields == IF request.method \in MethodsWithRequiredFields
                  THEN <<"fields">> ELSE <<>>
        checked == <<"method">> \o fields \o <<"permission", "resolve">>
        call == <<<<client_document(request, session), request.method>>>>
    IN  IF METHOD_PERMISSIONS(request.method) = None
        THEN Outcome(check, None, <<>>, <<"method">>)
        ELSE IF request.method \in MethodsWithRequiredFields /\ ~request.has_fields
             THEN Outcome("INVALID_REQUEST", None, <<>>, <<"method">> \o fields)
        ELSE IF check # OK
             THEN Outcome(check, None, <<>>, <<"method">> \o fields \o <<"permission">>)
        ELSE IF get_document(cfg, client_document(request, session)) # OK
             THEN Outcome(None, "AuthError", <<>>, checked)
        ELSE IF upstream_raises
             THEN Outcome(upstream_error(ClientException(request.method)).code,
                          upstream_error(ClientException(request.method)).raised,
                          call, checked \o <<"upstream", "upstream_raised">>)
        ELSE Outcome(OK, None, call, checked \o <<"upstream">>)

(* dispatch_proxy_request with client = None, as handle_proxy calls it.     *)
(* upstream_raises: whether the client operation raises.                    *)
dispatch_proxy_request(request, session, cfg, upstream_raises) ==
    LET check == permission_check(request.method, session, cfg)
        checked == <<"method", "permission", "resolve">>
        fields == IF request.method \in MethodsWithRequiredFields
                  THEN <<"fields">> ELSE <<>>
        call == <<<<client_document(request, session), request.method>>>>
    IN  IF METHOD_PERMISSIONS(request.method) = None
        THEN Outcome(check, None, <<>>, <<"method">>)
        ELSE IF check # OK
             THEN Outcome(check, None, <<>>, <<"method", "permission">>)
        ELSE IF get_document(cfg, client_document(request, session)) # OK
             THEN Outcome(None, "AuthError", <<>>, checked)
        ELSE IF request.method \in MethodsWithRequiredFields /\ ~request.has_fields
             THEN Outcome("INVALID_REQUEST", None, <<>>, checked \o fields)
        ELSE IF upstream_raises
             THEN Outcome(upstream_error(ClientException(request.method)).code,
                          upstream_error(ClientException(request.method)).raised,
                          call,
                          checked \o fields \o <<"upstream", "upstream_raised">>)
        ELSE Outcome(OK, None, call, checked \o fields \o <<"upstream">>)

(* Whether the dispatch reaches the client operation. *)
reaches_upstream(request, session, cfg) ==
    dispatch_proxy_request(request, session, cfg, FALSE).upstream # <<>>

-----------------------------------------------------------------------------
(* tools/read.py, tools/write.py, tools/schema.py *)

(* A plausible slip: the SQL tool filed under the write tools. *)
TOOL_PERMISSIONS_sql_as_write(name) ==
    IF name \in {"list_tables", "describe_table", "get_records"}
    THEN "read"
    ELSE IF name \in {"sql_query", "add_records", "update_records", "delete_records"}
    THEN "write"
    ELSE "schema"

(* The Permission each data tool passes to auth.authorize. *)
TOOL_PERMISSIONS(name) ==
    IF name \in {"list_tables", "describe_table", "get_records", "sql_query"}
    THEN "read"
    ELSE IF name \in {"add_records", "update_records", "delete_records"}
    THEN "write"
    ELSE "schema"

DataTools == KnownMethods

(* A data tool with client = None: authorize, then get_document, then the   *)
(* client operation. kind is the type of the exception raised (None when    *)
(* the tool returns) and error its message; required is the Permission      *)
(* passed to auth.authorize and authorize what that call gave (both None    *)
(* when the tool did not start), resolved whether get_document was called.  *)
ToolResult(kind, error, required, authorize_result, resolved, upstream) ==
    [kind |-> kind, error |-> error, required |-> required,
     authorize |-> authorize_result, resolved |-> resolved, upstream |-> upstream]

(* A plausible slip: the document is resolved before the agent is           *)
(* authorized.                                                              *)
data_tool_resolve_first(agent, cfg, name, document, upstream_raises) ==
    LET need == TOOL_PERMISSIONS(name)
        a == authorize(agent, document, need)
        d == get_document(cfg, document)
    IN  IF d # OK THEN ToolResult("AuthError", d, None, None, TRUE, <<>>)
        ELSE IF a # OK THEN ToolResult("AuthError", a, need, a, TRUE, <<>>)
        ELSE IF upstream_raises
        THEN ToolResult("Exception", "upstream failure", need, a, TRUE,
                        <<<<document, name>>>>)
        ELSE ToolResult(None, None, need, a, TRUE, <<<<document, name>>>>)

data_tool(agent, cfg, name, document, upstream_raises) ==
    LET need == TOOL_PERMISSIONS(name)
        a == authorize(agent, document, need)
        d == get_document(cfg, document)
    IN  IF a # OK THEN ToolResult("AuthError", a, need, a, FALSE, <<>>)
        ELSE IF d # OK THEN ToolResult("AuthError", d, need, a, TRUE, <<>>)
        ELSE IF upstream_raises
        THEN ToolResult("Exception", "upstream failure", need, a, TRUE,
                        <<<<document, name>>>>)
        ELSE ToolResult(None, None, need, a, TRUE, <<<<document, name>>>>)

(* A plausible slip: one except clause for every exception. *)
call_tool_text_one_clause(kind, error) ==
    IF kind = None THEN "result" ELSE "Error: " \o error

(* server.py call_tool: the text it returns when the tool returned (the     *)
(* JSON of the result, not modelled further), raised AuthError, or raised   *)
(* any other Exception.                                                     *)
call_tool_text(kind, error) ==
    IF kind = None THEN "result"
    ELSE IF kind = "AuthError" THEN "Authorization error: " \o error
    ELSE "Error: " \o error

(* The tool names call_tool dispatches on. *)
ToolNames ==
    {"list_documents", "get_proxy_documentation", "request_session_token"}
    \cup {"list_tables", "describe_table", "get_records", "sql_query",
          "add_records", "update_records", "delete_records", "create_table",
          "add_column", "modify_column", "delete_column"}

(* server.py call_tool passes label= to add_column and modify_column, a     *)
(* keyword tools/schema.py does not declare: the call raises TypeError      *)
(* before the body of the tool runs.                                        *)
ToolsCalledWithLabel == {"add_column", "modify_column"}

(* The tool call of call_tool's try block, for the data tools. *)
invoke_tool(agent, cfg, name, document, upstream_raises) ==
    IF name \in ToolsCalledWithLabel
    THEN ToolResult("Exception", "got an unexpected keyword argument 'label'",
                    None, None, FALSE, <<>>)
    ELSE data_tool(agent, cfg, name, document, upstream_raises)

-----------------------------------------------------------------------------
(* Inputs *)

ConnIds == {"c1", "c2"}

(* The connection the main specification opens and closes. *)
MainConns == {"c1"}

DocumentNames == {"sales", "budget", "ghost"}

(* ttl_seconds of a tool call: left out, below the cap, above the cap. *)
TtlInputs == {Omitted, Given(TickSeconds), Given(2 * MAX_TTL_SECONDS)}

(* The two of them that differ after one clock step: the default lifetime   *)
(* has passed by then, a lifetime of one step has not.                      *)
ShortTtlInputs == {Omitted, Given(TickSeconds)}

(* Permission lists whose order and repetitions show in the stored record. *)
OrderedPermissionLists ==
    { <<>>, <<"read", "write">>, <<"write", "read">>, <<"read", "read">>,
      <<"write", "admin">> }

(* The permission lists a caller asks for; "admin" is no Permission. *)
PermissionLists ==
    { <<>>, <<"read">>, <<"write">>, <<"schema">>,
      <<"read", "write">>, <<"read", "schema">>, <<"schema", "read">>,
      <<"read", "admin">>, <<"admin", "read">> }

(* Bearer strings of an SSE connection attempt: no header, an empty token,  *)
(* the configured tokens and a string that is none of them.                 *)
SseBearers == {None, "", "tok-a", "tok-b", "tok-x"}

(* Bearer strings presented to the proxy: no header, an empty token, a      *)
(* long-lived agent token, and session-token strings, stored or not.        *)
ProxyBearers == {None, "", "tok-a"} \cup {token_str(n) : n \in 0..MaxTokens}

(* The session-token strings of two connections, and one never issued. *)
SessionBearers == {token_str(n) : n \in 0..(MaxTokens + 1)}

(* The JSON objects that parse_proxy_request accepts: a method, and a       *)
(* table with it.                                                           *)
ParsingBodies ==
    {Body(m, TRUE, f) : m \in KnownMethods \cup {"drop_database"}, f \in BOOLEAN}

(* Request bodies of the proxy: bytes that are no JSON, JSON that is an     *)
(* array, JSON that is a number, and JSON objects.                          *)
Bodies ==
    {[kind |-> "not_json"], [kind |-> "array"], [kind |-> "number"]}
    \cup {Body(m, t, f) : m \in KnownMethods \cup {"drop_database", None},
                          t \in BOOLEAN, f \in BOOLEAN}

(* Bodies that fail at each check after the session token: no JSON, no     *)
(* method, an unknown method, a method the token may not use, a missing     *)
(* field; and one body that passes.                                         *)
FailingBodies ==
    {[kind |-> "not_json"], [kind |-> "array"],
     Body(None, FALSE, FALSE), Body("drop_database", TRUE, TRUE),
     Body("add_records", TRUE, TRUE), Body("sql_query", FALSE, FALSE),
     Body("list_tables", FALSE, FALSE)}

(* Upload requests: the content type is multipart/form-data or not, and    *)
(* the body holds a file part or not.                                       *)
Uploads == [multipart : BOOLEAN, has_file : BOOLEAN]

(* Requests that name a document of their own: a "document" key in the     *)
(* JSON body of a proxy request, a "document" field in the form of an       *)
(* upload. Neither ProxyRequest nor _parse_multipart has a place for it.    *)
BodiesNamingDocument ==
    {Body(m, TRUE, TRUE) @@ [document |-> d] :
        m \in KnownMethods, d \in {"sales", "budget"}}

UploadsNamingDocument ==
    {[multipart |-> TRUE, has_file |-> TRUE, document |-> d] :
        d \in {"sales", "budget"}}

(* Attachment ids of a download path. *)
AttachmentIds == {1, 2}

-----------------------------------------------------------------------------
(* State machine *)

NoAgent == [token |-> None]

(* The Config the Authenticator holds. *)
store == Configs[config]

Init ==
    /\ config \in ConfigNames
    /\ conns = [c \in ConnIds |-> NoAgent]
    /\ tokens = << >>
    /\ issued = << >>
    /\ now = 0
    /\ last = [op |-> "init"]

(* Time passes. *)
Tick ==
    /\ now < MaxTicks * TickSeconds
    /\ now' = now + TickSeconds
    /\ last' = [op |-> "tick"]
    /\ UNCHANGED <<config, conns, tokens, issued>>

(* main.py handle_sse: an SSE connection is opened with a bearer string. *)
handle_sse(c, bearer) ==
    /\ conns[c] = NoAgent
    /\ LET a == authenticate(store, bearer)
       IN  IF bearer = None \/ bearer = ""
           THEN /\ last' = [op |-> "connect", conn |-> c, bearer |-> bearer,
                            status |-> 401,
                            error |-> "Missing Authorization header"]
                /\ UNCHANGED conns
           ELSE IF ~a.ok
           THEN /\ last' = [op |-> "connect", conn |-> c, bearer |-> bearer,
                            status |-> 401, error |-> a.error]
                /\ UNCHANGED conns
           ELSE /\ conns' = [conns EXCEPT ![c] = a.agent]
                /\ last' = [op |-> "connect", conn |-> c, bearer |-> bearer,
                            status |-> 200, error |-> None]
    /\ UNCHANGED <<config, tokens, issued, now>>

(* A plausible slip: one server for all connections, holding the agent of   *)
(* the first.                                                               *)
current_agent_shared(c) == IF conns["c1"] # NoAgent THEN conns["c1"] ELSE conns[c]

(* server.py create_server: _current_agent, the agent the server of         *)
(* connection c was created for, which its call_tool closes over.           *)
current_agent(c) == conns[c]

(* The SSE connection ends; its server and agent go with it. *)
Disconnect(c) ==
    /\ conns[c] # NoAgent
    /\ conns' = [conns EXCEPT ![c] = NoAgent]
    /\ last' = [op |-> "disconnect", conn |-> c]
    /\ UNCHANGED <<config, tokens, issued, now>>

(* secrets.token_urlsafe: the values a call made for connection c can       *)
(* return. The first connection issues up to MaxTokens tokens, any other    *)
(* connection one; their values do not collide.                             *)
token_urlsafe(c) == IF c = "c1" THEN 1..MaxTokens ELSE {MaxTokens + 1}

(* server.py call_tool, name = "request_session_token", on connection c:    *)
(* tools/session.py request_session_token with the connection's agent.      *)
request_session_token(c, document, permissions, ttl_seconds) ==
    /\ conns[c] # NoAgent
    /\ LET agent == current_agent(c)
           r == check_permissions(agent, document, permissions, 1)
       IN  IF r # OK
           THEN /\ last' = [op |-> "request_session_token", conn |-> c,
                            agent_name |-> agent.name, document |-> document,
                            permissions |-> permissions,
                            error |-> r, token |-> None,
                            returned |-> NoSession,
                            text |-> call_tool_text("AuthError", r)]
                /\ UNCHANGED <<tokens, issued>>
           ELSE /\ \E random \in token_urlsafe(c) :
                    LET session == create_token(agent.name, document, permissions,
                                                tool_ttl(ttl_seconds), random, now)
                    IN  /\ session.token \notin DOMAIN tokens
                        /\ tokens' = store_token(tokens, session)
                        /\ issued' = (session.token :>
                                        [agent |-> agent, ttl_seconds |-> ttl_seconds])
                                     @@ issued
                        /\ last' = [op |-> "request_session_token", conn |-> c,
                                    agent_name |-> agent.name, document |-> document,
                                    permissions |-> permissions,
                                    error |-> None, token |-> session.token,
                                    returned |->
                                        [token |-> session.token,
                                         document |-> session.document,
                                         permissions |-> session.permissions,
                                         expires_at |-> session.expires_at],
                                    text |-> call_tool_text(None, None)]
    /\ UNCHANGED <<config, conns, now>>

(* The response of handle_proxy: what the action records. status and code   *)
(* are None when an exception left the handler and no response was sent;    *)
(* steps are the steps the handler and the dispatcher took, in order.       *)
ProxyResponse(bearer, session, body, status, code, raised, upstream, steps) ==
    [op |-> "proxy", bearer |-> bearer, session |-> session, body |-> body,
     status |-> status, code |-> code, raised |-> raised, upstream |-> upstream,
     steps |-> steps]

(* The steps of handle_proxy up to the JSON decoding and up to the parse. *)
StepsToJson == <<"bearer", "validate", "body", "json">>
StepsToParse == StepsToJson \o <<"parse">>

NotRead == [kind |-> "not_read"]

(* The status handle_proxy answers a ProxyError with. *)
proxy_error_status(code) == IF code = "UNAUTHORIZED" THEN 403 ELSE 400

(* What handle_proxy answers when no bearer token is presented. *)
missing_token_response == [status |-> 401, code |-> "INVALID_TOKEN"]

(* A plausible slip: the invalid-session branch answers like a permission   *)
(* failure.                                                                 *)
invalid_session_response_forbidden == [status |-> 403, code |-> "UNAUTHORIZED"]

(* A plausible slip: the invalid-session branch answers with the code of    *)
(* the missing-header branch.                                               *)
invalid_session_response_as_missing == [status |-> 401, code |-> "INVALID_TOKEN"]

(* What handle_proxy answers when validate_token returns None. *)
invalid_session_response == [status |-> 401, code |-> "TOKEN_EXPIRED"]

(* A plausible slip: the body is received and decoded before the bearer and *)
(* the session token are looked at.                                         *)
handle_proxy_authentication_after_json(bearer, session, body) ==
    IF body.kind = "not_json"
    THEN [status |-> 400, code |-> "INVALID_REQUEST", read |-> body,
          steps |-> <<"body", "json">>]
    ELSE IF bearer = None \/ bearer = ""
    THEN [status |-> missing_token_response.status,
          code |-> missing_token_response.code, read |-> body,
          steps |-> <<"body", "json", "bearer">>]
    ELSE IF session = NoSession
    THEN [status |-> invalid_session_response.status,
          code |-> invalid_session_response.code, read |-> body,
          steps |-> <<"body", "json", "bearer", "validate">>]
    ELSE [status |-> 0, code |-> OK, read |-> body,
          steps |-> <<"body", "json", "bearer", "validate">>]

(* main.py handle_proxy up to the receive loop: the answer to a request     *)
(* without a bearer token and to one whose session token does not validate, *)
(* and what has been read of the body by then.                              *)
handle_proxy_authentication(bearer, session, body) ==
    IF bearer = None \/ bearer = ""
    THEN [status |-> missing_token_response.status,
          code |-> missing_token_response.code, read |-> NotRead,
          steps |-> <<"bearer">>]
    ELSE IF session = NoSession
    THEN [status |-> invalid_session_response.status,
          code |-> invalid_session_response.code, read |-> NotRead,
          steps |-> <<"bearer", "validate">>]
    ELSE [status |-> 0, code |-> OK, read |-> NotRead,
          steps |-> <<"bearer", "validate">>]

(* main.py handle_proxy, POST /api/v1/proxy: bearer-less and invalid-token  *)
(* requests are answered before the body is received. The body the client   *)
(* sent is recorded next to what the handler read of it.                    *)
handle_proxy_rejected(bearer, body) ==
    /\ LET r == handle_proxy_authentication(
                    bearer, validate_token(tokens, bearer, now), body)
       IN  /\ r.code # OK
           /\ last' = [sent |-> body, op |-> "proxy", bearer |-> bearer,
                       session |-> NoSession, body |-> r.read,
                       status |-> r.status, code |-> r.code, raised |-> None,
                       upstream |-> <<>>, steps |-> r.steps]
    /\ UNCHANGED <<config, conns, tokens, issued, now>>

(* main.py handle_proxy with a valid session token: body, parse, dispatch. *)
handle_proxy(bearer, body) ==
    /\ bearer # None /\ bearer # ""
    /\ LET session == validate_token(tokens, bearer, now)
       IN  /\ session # NoSession
           /\ IF body.kind = "not_json"
              THEN last' = ProxyResponse(bearer, session, body, 400,
                                         "INVALID_REQUEST", None, <<>>,
                                         StepsToJson)
              ELSE IF body.kind = "number"
              THEN last' = ProxyResponse(bearer, session, body, None,
                                         None, "TypeError", <<>>, StepsToParse)
              ELSE IF body.kind = "array"
              THEN last' = ProxyResponse(bearer, session, body,
                                         proxy_error_status("INVALID_REQUEST"),
                                         "INVALID_REQUEST", None, <<>>,
                                         StepsToParse)
              ELSE IF parse_proxy_request(body) # OK
              THEN last' = ProxyResponse(bearer, session, body,
                                         proxy_error_status(parse_proxy_request(body)),
                                         parse_proxy_request(body), None, <<>>,
                                         StepsToParse)
              ELSE \E upstream_raises \in
                        IF reaches_upstream(body, session, store)
                        THEN BOOLEAN ELSE {FALSE} :
                    LET out == dispatch_proxy_request(body, session, store,
                                                      upstream_raises)
                    IN  last' =
                          IF out.raised # None
                          THEN ProxyResponse(bearer, session, body, None, None,
                                             out.raised, out.upstream,
                                             StepsToParse \o out.steps)
                          ELSE IF out.code = OK
                          THEN ProxyResponse(bearer, session, body, 200, OK,
                                             None, out.upstream,
                                             StepsToParse \o out.steps)
                          ELSE ProxyResponse(bearer, session, body,
                                             proxy_error_status(out.code),
                                             out.code, None, out.upstream,
                                             StepsToParse \o out.steps)
    /\ UNCHANGED <<config, conns, tokens, issued, now>>

(* server.py call_tool with the name of a data tool, on connection c: the   *)
(* text it returns is the result, or the message of the exception caught.   *)
call_tool(c, name, document) ==
    /\ conns[c] # NoAgent
    /\ \E upstream_raises \in
            IF invoke_tool(current_agent(c), store, name, document, FALSE).upstream # <<>>
            THEN BOOLEAN ELSE {FALSE} :
        LET r == invoke_tool(current_agent(c), store, name, document, upstream_raises)
        IN  last' = [op |-> "call_tool", conn |-> c, agent_name |-> current_agent(c).name,
                     name |-> name, document |-> document,
                     text |-> call_tool_text(r.kind, r.error),
                     kind |-> r.kind, error |-> r.error,
                     required |-> r.required, authorize |-> r.authorize,
                     resolved |-> r.resolved, upstream |-> r.upstream]
    /\ UNCHANGED <<config, conns, tokens, issued, now>>

(* server.py call_tool, name = "list_documents", on connection c. *)
list_documents(c) ==
    /\ conns[c] # NoAgent
    /\ last' = [op |-> "call_tool", conn |-> c, agent_name |-> current_agent(c).name,
                name |-> "list_documents", document |-> None,
                text |-> "result", kind |-> None, error |-> None,
                required |-> None, authorize |-> None, resolved |-> FALSE,
                upstream |-> <<>>,
                documents |-> get_accessible_documents(current_agent(c))]
    /\ UNCHANGED <<config, conns, tokens, issued, now>>

(* server.py call_tool with a name none of its branches matches. *)
call_tool_unknown(c, name) ==
    /\ conns[c] # NoAgent
    /\ name \notin ToolNames
    /\ last' = [op |-> "call_tool", conn |-> c,
                agent_name |-> current_agent(c).name,
                name |-> name, document |-> None,
                text |-> "Unknown tool: " \o name, kind |-> None, error |-> None,
                required |-> None, authorize |-> None, resolved |-> FALSE,
                upstream |-> <<>>]
    /\ UNCHANGED <<config, conns, tokens, issued, now>>

(* server.py call_tool, name = "request_session_token", of a server that    *)
(* create_server built without a token manager, as the unit tests build it, *)
(* for the agent of connection c: it returns before the tool is called.     *)
request_session_token_not_enabled(c, document, permissions) ==
    /\ conns[c] # NoAgent
    /\ last' = [op |-> "call_tool", conn |-> c,
                agent_name |-> current_agent(c).name,
                name |-> "request_session_token", document |-> document,
                text |-> "Session tokens not enabled", kind |-> None,
                error |-> None, required |-> None, authorize |-> None,
                resolved |-> FALSE, upstream |-> <<>>]
    /\ UNCHANGED <<config, conns, tokens, issued, now>>

(* A data tool called as its unit tests call it: the function of            *)
(* tools/read.py, tools/write.py or tools/schema.py with an authenticated   *)
(* agent, the Authenticator and a document name.                            *)
data_tool_direct(c, name, document) ==
    /\ conns[c] # NoAgent
    /\ \E upstream_raises \in
            IF data_tool(conns[c], store, name, document, FALSE).upstream # <<>>
            THEN BOOLEAN ELSE {FALSE} :
        LET r == data_tool(conns[c], store, name, document, upstream_raises)
        IN  last' = [op |-> "tool", conn |-> c, agent_name |-> conns[c].name,
                     name |-> name, document |-> document,
                     kind |-> r.kind, error |-> r.error,
                     required |-> r.required, authorize |-> r.authorize,
                     resolved |-> r.resolved, upstream |-> r.upstream]
    /\ UNCHANGED <<config, conns, tokens, issued, now>>

(* The response of an attachment endpoint: what the action records. *)
AttachmentResponse(op, bearer, session, request, status, code, upstream) ==
    [op |-> op, bearer |-> bearer, session |-> session, request |-> request,
     status |-> status, code |-> code, upstream |-> upstream]

(* A plausible slip: both attachment endpoints ask for read. *)
attachment_permission_read_for_both(op) == "read"

(* The permission each attachment endpoint looks for in session.permissions. *)
attachment_permission(op) == IF op = "upload" THEN "write" ELSE "read"

(* main.py handle_attachments, POST /api/v1/attachments. upload: whether    *)
(* the content type is multipart/form-data and whether _parse_multipart     *)
(* finds a file part.                                                       *)
handle_attachments(bearer, upload) ==
    /\ LET session == validate_token(tokens, bearer, now)
           Answer(sess, status, code, upstream) ==
               AttachmentResponse("upload", bearer, sess, upload, status, code,
                                  upstream)
       IN  IF bearer = None \/ bearer = ""
           THEN last' = Answer(NoSession, 401, "INVALID_TOKEN", <<>>)
           ELSE IF session = NoSession
           THEN last' = Answer(NoSession, 401, "TOKEN_EXPIRED", <<>>)
           ELSE IF ~InList(attachment_permission("upload"), session.permissions)
           THEN last' = Answer(session, 403, "UNAUTHORIZED", <<>>)
           ELSE IF ~upload.multipart \/ ~upload.has_file
           THEN last' = Answer(session, 400, "INVALID_REQUEST", <<>>)
           ELSE IF get_document(store, client_document(upload, session)) # OK
           THEN last' = Answer(session, 500, "GRIST_ERROR", <<>>)
           ELSE \E upstream_raises \in BOOLEAN :
                    last' = IF upstream_raises
                            THEN Answer(session, 500, "GRIST_ERROR",
                                        <<<<client_document(upload, session),
                                            "upload_attachment">>>>)
                            ELSE Answer(session, 200, OK,
                                        <<<<client_document(upload, session),
                                            "upload_attachment">>>>)
    /\ UNCHANGED <<config, conns, tokens, issued, now>>

(* main.py handle_attachment_download, GET /api/v1/attachments/{id}, with   *)
(* the integer the router parsed from the path.                             *)
handle_attachment_download(bearer, attachment_id) ==
    /\ LET session == validate_token(tokens, bearer, now)
           Answer(sess, status, code, upstream) ==
               AttachmentResponse("download", bearer, sess, attachment_id, status,
                                  code, upstream)
       IN  IF bearer = None \/ bearer = ""
           THEN last' = Answer(NoSession, 401, "INVALID_TOKEN", <<>>)
           ELSE IF session = NoSession
           THEN last' = Answer(NoSession, 401, "TOKEN_EXPIRED", <<>>)
           ELSE IF ~InList(attachment_permission("download"), session.permissions)
           THEN last' = Answer(session, 403, "UNAUTHORIZED", <<>>)
           ELSE IF get_document(store,
                                client_document([attachment_id |-> attachment_id],
                                                session)) # OK
           THEN last' = Answer(session, 500, "GRIST_ERROR", <<>>)
           ELSE \E upstream_raises \in BOOLEAN :
                    LET path == [attachment_id |-> attachment_id]
                    IN  last' =
                          IF upstream_raises
                          THEN Answer(session, 500, "GRIST_ERROR",
                                      <<<<client_document(path, session),
                                          "download_attachment">>>>)
                          ELSE Answer(session, 200, OK,
                                      <<<<client_document(path, session),
                                          "download_attachment">>>>)
    /\ UNCHANGED <<config, conns, tokens, issued, now>>

(* SessionTokenManager.create_token called directly, as the unit tests of   *)
(* session.py do; the server itself calls it through request_session_token  *)
(* only.                                                                    *)
create_token_direct(agent_name, document, permissions, ttl_seconds) ==
    /\ Cardinality(DOMAIN tokens) < MaxTokens
    /\ \E random \in 1..MaxTokens :
        LET session == create_token(agent_name, document, permissions,
                                    ttl_seconds, random, now)
        IN  /\ session.token \notin DOMAIN tokens
            /\ tokens' = store_token(tokens, session)
            /\ issued' = (session.token :>
                            [agent |-> NoAgent, ttl_seconds |-> ttl_seconds])
                         @@ issued
            /\ last' = [op |-> "create_token", token |-> session.token]
    /\ UNCHANGED <<config, conns, now>>

Next ==
    \/ Tick
    \/ \E c \in MainConns, bearer \in SseBearers : handle_sse(c, bearer)
    \/ \E c \in MainConns : Disconnect(c)
    \/ \E c \in MainConns, document \in DocumentNames,
          permissions \in PermissionLists, ttl_seconds \in ShortTtlInputs :
            request_session_token(c, document, permissions, ttl_seconds)
    \/ \E bearer \in ProxyBearers :
            handle_proxy_rejected(bearer, [kind |-> "not_json"])
    \/ \E bearer \in ProxyBearers, body \in Bodies : handle_proxy(bearer, body)
    \/ \E c \in MainConns, name \in DataTools, document \in DocumentNames :
            call_tool(c, name, document)
    \/ \E bearer \in ProxyBearers, upload \in Uploads :
            handle_attachments(bearer, upload)
    \/ \E bearer \in ProxyBearers, attachment_id \in AttachmentIds :
            handle_attachment_download(bearer, attachment_id)

Spec == Init /\ [][Next]_vars

(* The SessionTokenManager as a unit: the server's issuance path, and       *)
(* create_token called directly with the arguments of its unit tests.       *)
NextSession ==
    \/ Tick
    \/ \E c \in MainConns, bearer \in SseBearers : handle_sse(c, bearer)
    \/ \E c \in MainConns, permissions \in {<<"read">>, <<"schema">>},
          ttl_seconds \in TtlInputs :
            request_session_token(c, "sales", permissions, ttl_seconds)
    \/ \E ttl_seconds \in TtlInputs :
            create_token_direct("test-agent", "sales", <<"read">>, ttl_seconds)

SpecSession == Init /\ [][NextSession]_vars

(* The proxy's permission decision: issuance of every token an agent can    *)
(* obtain, and proxy requests whose body parses. The decision does not read *)
(* the clock; a token presented before its expiry is the case it is about.  *)
NextDispatch ==
    \/ \E c \in MainConns, bearer \in SseBearers : handle_sse(c, bearer)
    \/ \E c \in MainConns : Disconnect(c)
    \/ \E c \in MainConns, document \in DocumentNames,
          permissions \in PermissionLists :
            request_session_token(c, document, permissions, Omitted)
    \/ \E bearer \in ProxyBearers :
            handle_proxy_rejected(bearer, [kind |-> "not_json"])
    \/ \E bearer \in ProxyBearers, body \in ParsingBodies :
            handle_proxy(bearer, body)

SpecDispatch == Init /\ [][NextDispatch]_vars

(* Permission decisions of both channels: issuance, data-tool calls, and    *)
(* proxy requests that carry every field their method needs.                *)
NextPermissions ==
    \/ \E c \in MainConns, bearer \in SseBearers : handle_sse(c, bearer)
    \/ \E c \in MainConns : Disconnect(c)
    \/ \E c \in MainConns, document \in DocumentNames,
          permissions \in PermissionLists :
            request_session_token(c, document, permissions, Omitted)
    \/ \E bearer \in ProxyBearers, method \in KnownMethods :
            handle_proxy(bearer, Body(method, TRUE, TRUE))
    \/ \E c \in MainConns, name \in DataTools, document \in DocumentNames :
            call_tool(c, name, document)

SpecPermissions == Init /\ [][NextPermissions]_vars

(* The proxy endpoint with every kind of body: tokens of every permission   *)
(* list an agent can obtain, for a document of the registry and for one     *)
(* that a scope names and the registry lacks.                               *)
NextProxy ==
    \/ \E c \in MainConns, bearer \in SseBearers : handle_sse(c, bearer)
    \/ \E c \in MainConns, document \in {"sales", "budget"},
          permissions \in PermissionLists :
            request_session_token(c, document, permissions, Omitted)
    \/ \E bearer \in ProxyBearers :
            handle_proxy_rejected(bearer, [kind |-> "not_json"])
    \/ \E bearer \in ProxyBearers, body \in Bodies : handle_proxy(bearer, body)

SpecProxy == Init /\ [][NextProxy]_vars

(* The attachment endpoints, with the tokens of every permission list an    *)
(* agent can obtain.                                                        *)
NextAttachments ==
    \/ \E c \in MainConns, bearer \in SseBearers : handle_sse(c, bearer)
    \/ \E c \in MainConns, document \in {"sales", "budget"},
          permissions \in PermissionLists :
            request_session_token(c, document, permissions, Omitted)
    \/ \E bearer \in ProxyBearers, upload \in Uploads :
            handle_attachments(bearer, upload)
    \/ \E bearer \in ProxyBearers, attachment_id \in AttachmentIds :
            handle_attachment_download(bearer, attachment_id)

SpecAttachments == Init /\ [][NextAttachments]_vars

(* The record of an issuance: requests whose permission lists differ in     *)
(* order and repetition only, for every document name.                      *)
NextRecord ==
    \/ \E c \in MainConns, bearer \in SseBearers : handle_sse(c, bearer)
    \/ \E c \in MainConns : Disconnect(c)
    \/ \E c \in MainConns, document \in DocumentNames,
          permissions \in OrderedPermissionLists, ttl_seconds \in ShortTtlInputs :
            request_session_token(c, document, permissions, ttl_seconds)

SpecRecord == Init /\ [][NextRecord]_vars

(* Both channels side by side: the data tools, through call_tool and        *)
(* directly, and proxy requests for the same eleven operations with the     *)
(* tokens an agent can obtain for one document.                             *)
NextChannels ==
    \/ \E c \in MainConns, bearer \in SseBearers : handle_sse(c, bearer)
    \/ \E c \in MainConns : Disconnect(c)
    \/ \E c \in MainConns, permissions \in PermissionLists :
            request_session_token(c, "sales", permissions, Omitted)
    \/ \E bearer \in ProxyBearers, method \in KnownMethods :
            handle_proxy(bearer, Body(method, TRUE, TRUE))
    \/ \E c \in MainConns, name \in DataTools, document \in DocumentNames :
            call_tool(c, name, document)
    \/ \E c \in MainConns, name \in DataTools, document \in DocumentNames :
            data_tool_direct(c, name, document)

SpecChannels == Init /\ [][NextChannels]_vars

(* Delegation: tokens issued through request_session_token only, and every  *)
(* endpoint that acts on behalf of a session token.                         *)
NextDelegation ==
    \/ \E c \in MainConns, bearer \in SseBearers : handle_sse(c, bearer)
    \/ \E c \in MainConns : Disconnect(c)
    \/ \E c \in MainConns, document \in DocumentNames,
          permissions \in PermissionLists :
            request_session_token(c, document, permissions, Omitted)
    \/ \E bearer \in ProxyBearers, method \in KnownMethods :
            handle_proxy(bearer, Body(method, TRUE, TRUE))
    \/ \E bearer \in ProxyBearers :
            handle_attachments(bearer, [multipart |-> TRUE, has_file |-> TRUE])
    \/ \E bearer \in ProxyBearers, attachment_id \in AttachmentIds :
            handle_attachment_download(bearer, attachment_id)

SpecDelegation == Init /\ [][NextDelegation]_vars

(* One token, one document: requests that name a document themselves,       *)
(* presented with tokens for either document.                               *)
NextDocument ==
    \/ \E c \in MainConns, bearer \in SseBearers : handle_sse(c, bearer)
    \/ \E c \in MainConns, document \in {"sales", "budget"},
          permissions \in PermissionLists :
            request_session_token(c, document, permissions, Omitted)
    \/ \E bearer \in ProxyBearers, body \in BodiesNamingDocument :
            handle_proxy(bearer, body)
    \/ \E bearer \in ProxyBearers, upload \in UploadsNamingDocument :
            handle_attachments(bearer, upload)
    \/ \E bearer \in ProxyBearers, attachment_id \in AttachmentIds :
            handle_attachment_download(bearer, attachment_id)

SpecDocument == Init /\ [][NextDocument]_vars

(* Expiry: tokens of every lifetime for one document, the clock, and proxy  *)
(* requests with each kind of bearer string.                                *)
NextExpiry ==
    \/ Tick
    \/ \E c \in MainConns, bearer \in SseBearers : handle_sse(c, bearer)
    \/ \E c \in MainConns, permissions \in {<<>>, <<"read">>},
          ttl_seconds \in TtlInputs :
            request_session_token(c, "sales", permissions, ttl_seconds)
    \/ \E bearer \in ProxyBearers :
            handle_proxy_rejected(bearer, [kind |-> "not_json"])
    \/ \E bearer \in ProxyBearers,
          body \in {Body("list_tables", FALSE, FALSE),
                    Body("add_records", TRUE, TRUE)} :
            handle_proxy(bearer, body)

SpecExpiry == Init /\ [][NextExpiry]_vars

(* The order of handle_proxy's checks: the clock, tokens that expire, and   *)
(* requests of every bearer string with bodies that fail at each later      *)
(* check.                                                                   *)
NextOrder ==
    \/ Tick
    \/ \E c \in MainConns, bearer \in SseBearers : handle_sse(c, bearer)
    \/ \E c \in MainConns, permissions \in {<<>>, <<"read">>},
          ttl_seconds \in ShortTtlInputs :
            request_session_token(c, "sales", permissions, ttl_seconds)
    \/ \E bearer \in ProxyBearers, body \in FailingBodies :
            handle_proxy_rejected(bearer, body)
    \/ \E bearer \in ProxyBearers, body \in FailingBodies :
            handle_proxy(bearer, body)

SpecOrder == Init /\ [][NextOrder]_vars

(* The token map under every operation of the server: two connections      *)
(* that issue tokens and are refused them, the clock, and each endpoint     *)
(* that validates a session token.                                          *)
NextStore ==
    \/ Tick
    \/ \E c \in ConnIds, bearer \in {"tok-a", "tok-b"} : handle_sse(c, bearer)
    \/ \E c \in ConnIds, document \in {"sales", "ghost"} :
            request_session_token(c, document, <<"read">>, Omitted)
    \/ \E bearer \in SessionBearers :
            handle_proxy_rejected(bearer, [kind |-> "not_json"])
    \/ \E bearer \in SessionBearers :
            handle_proxy(bearer, Body("list_tables", FALSE, FALSE))
    \/ \E bearer \in SessionBearers :
            handle_attachments(bearer, [multipart |-> TRUE, has_file |-> TRUE])
    \/ \E bearer \in SessionBearers : handle_attachment_download(bearer, 1)

SpecStore == Init /\ [][NextStore]_vars

(* The credential store under every operation that reads it: connections   *)
(* of both agents, tool calls, token requests and proxy requests, in any    *)
(* order.                                                                   *)
NextCredentials ==
    \/ \E c \in ConnIds, bearer \in {"tok-a", "tok-b"} : handle_sse(c, bearer)
    \/ \E c \in ConnIds : Disconnect(c)
    \/ \E c \in ConnIds, document \in {"sales", "budget"},
          permissions \in {<<"read">>, <<"schema">>} :
            request_session_token(c, document, permissions, Omitted)
    \/ \E c \in ConnIds, document \in {"sales", "budget"},
          name \in {"list_tables", "create_table"} :
            call_tool(c, name, document)
    \/ \E c \in ConnIds : list_documents(c)
    \/ \E bearer \in SessionBearers :
            handle_proxy(bearer, Body("list_tables", FALSE, FALSE))

SpecCredentials == Init /\ [][NextCredentials]_vars

(* Concurrent tasks: two connections whose tool calls create tokens, proxy  *)
(* requests that validate them, and the clock, interleaved in every order.  *)
(* A step is the code a task runs between two awaits: create_token and      *)
(* request_session_token hold no await, so a creation is one step.          *)
NextConcurrent ==
    \/ Tick
    \/ \E c \in ConnIds, bearer \in {"tok-a", "tok-b"} : handle_sse(c, bearer)
    \/ \E c \in ConnIds, permissions \in {<<"read">>, <<"write">>},
          ttl_seconds \in ShortTtlInputs :
            request_session_token(c, "sales", permissions, ttl_seconds)
    \/ \E bearer \in SessionBearers :
            handle_proxy_rejected(bearer, [kind |-> "not_json"])
    \/ \E bearer \in SessionBearers :
            handle_proxy(bearer, Body("list_tables", FALSE, FALSE))

SpecConcurrent == Init /\ [][NextConcurrent]_vars

(* Identity: two connections opened with every kind of bearer string, and  *)
(* the tool calls and token requests each of them makes while the other is  *)
(* open.                                                                    *)
NextIdentity ==
    \/ \E c \in ConnIds, bearer \in SseBearers : handle_sse(c, bearer)
    \/ \E c \in ConnIds : Disconnect(c)
    \/ \E c \in ConnIds, document \in {"sales", "budget"},
          permissions \in {<<"read">>, <<"write">>} :
            request_session_token(c, document, permissions, Omitted)
    \/ \E c \in ConnIds, document \in {"sales", "budget"},
          name \in {"list_tables", "add_records"} :
            call_tool(c, name, document)
    \/ \E c \in ConnIds : list_documents(c)

SpecIdentity == Init /\ [][NextIdentity]_vars

(* call_tool with every kind of name and outcome: data tools that return,   *)
(* are refused or fail, token requests that succeed or are refused, names   *)
(* no branch matches, and a server without a token manager.                 *)
NextCallTool ==
    \/ \E c \in MainConns, bearer \in SseBearers : handle_sse(c, bearer)
    \/ \E c \in MainConns : Disconnect(c)
    \/ \E c \in MainConns, document \in DocumentNames,
          permissions \in {<<"read">>, <<"write">>, <<"read", "admin">>} :
            request_session_token(c, document, permissions, Omitted)
    \/ \E c \in MainConns, name \in DataTools, document \in DocumentNames :
            call_tool(c, name, document)
    \/ \E c \in MainConns : list_documents(c)
    \/ \E c \in MainConns, name \in {"drop_database", "validate_token"} :
            call_tool_unknown(c, name)
    \/ \E c \in MainConns, document \in DocumentNames :
            request_session_token_not_enabled(c, document, <<"read">>)

SpecCallTool == Init /\ [][NextCallTool]_vars

(* Issuance alone: connections and request_session_token calls. Neither     *)
(* reads the clock, and no other operation writes the token map.            *)
NextIssue ==
    \/ \E c \in MainConns, bearer \in SseBearers : handle_sse(c, bearer)
    \/ \E c \in MainConns : Disconnect(c)
    \/ \E c \in MainConns, document \in DocumentNames,
          permissions \in PermissionLists, ttl_seconds \in TtlInputs :
            request_session_token(c, document, permissions, ttl_seconds)

SpecIssue == Init /\ [][NextIssue]_vars

(* The tool-call channel alone: two connections, their data-tool calls, and *)
(* the tool functions called directly.                                      *)
NextTools ==
    \/ \E c \in ConnIds, bearer \in SseBearers : handle_sse(c, bearer)
    \/ \E c \in ConnIds : Disconnect(c)
    \/ \E c \in ConnIds, name \in DataTools, document \in DocumentNames :
            call_tool(c, name, document)
    \/ \E c \in ConnIds, name \in DataTools, document \in DocumentNames :
            data_tool_direct(c, name, document)

SpecTools == Init /\ [][NextTools]_vars

-----------------------------------------------------------------------------
(* Properties *)

(* The first scope entry of the scope for the document, stated without the  *)
(* scan: entry i names the document and no earlier entry does.              *)
IsFirstEntry(scope, document, i) ==
    /\ i \in DOMAIN scope
    /\ scope[i].document = document
    /\ \A j \in DOMAIN scope : j < i => scope[j].document # document

HasEntry(scope, document) == \E i \in DOMAIN scope : scope[i].document = document

(* The permission each operation requires, as the specification lists it. *)
RequiredPermission(operation) ==
    IF operation \in {"list_tables", "describe_table", "get_records", "sql_query"}
    THEN "read"
    ELSE IF operation \in {"add_records", "update_records", "delete_records"}
    THEN "write"
    ELSE IF operation \in {"create_table", "add_column", "modify_column",
                           "delete_column"}
    THEN "schema"
    ELSE None

(* The last operation was a proxy request that reached the dispatcher. *)
Dispatched ==
    /\ last.op = "proxy"
    /\ last.session # NoSession
    /\ last.body.kind = "object"
    /\ last.body.method # None
    /\ ~(last.body.method \in METHODS_REQUIRING_TABLE /\ ~last.body.has_table)

(* C1: every session token in the map lists only permissions that the      *)
(* scope entry of its issuing agent for the token's document contains.      *)
C1_TokenWithinIssuerScope ==
    \A t \in DOMAIN tokens :
        \A k \in DOMAIN tokens[t].permissions :
            \E i \in DOMAIN issued[t].agent.token_obj.scope :
                /\ IsFirstEntry(issued[t].agent.token_obj.scope, tokens[t].document, i)
                /\ InList(tokens[t].permissions[k],
                          issued[t].agent.token_obj.scope[i].permissions)

C1_Witness ==
    \E t \in DOMAIN tokens :
        /\ Len(tokens[t].permissions) = 2
        /\ tokens[t].permissions[1] # tokens[t].permissions[2]

(* Every requested permission parses as a Permission and is listed by the   *)
(* agent's first scope entry for the document.                              *)
AllRequestedPass(agent, document, permissions) ==
    \A k \in DOMAIN permissions :
        /\ permissions[k] \in {"read", "write", "schema"}
        /\ \E i \in DOMAIN agent.token_obj.scope :
            /\ IsFirstEntry(agent.token_obj.scope, document, i)
            /\ InList(permissions[k], agent.token_obj.scope[i].permissions)

(* C2: a request_session_token call changes the token map only if every    *)
(* requested permission parses and is authorized; when one fails, at any   *)
(* position, the call fails with an AuthError and the map is unchanged.     *)
C2_CreateOnlyIfAllPass ==
    [][ last'.op = "request_session_token" =>
          IF AllRequestedPass(conns'[last'.conn], last'.document, last'.permissions)
          THEN last'.error = None
          ELSE /\ last'.error \in {"Document not in scope", "Permission denied",
                                   "Invalid permission: admin"}
               /\ last'.token = None
               /\ tokens' = tokens
      ]_vars

(* A request whose first permission passes and whose second one fails. *)
C2_Witness ==
    /\ last.op = "request_session_token"
    /\ last.error # None
    /\ Len(last.permissions) = 2
    /\ AllRequestedPass(conns[last.conn], last.document, <<last.permissions[1]>>)

(* C3 (the claim as stated, on the configuration whose tokens are          *)
(* distinct): a request for a document that has no entry in the agent's     *)
(* scope fails whatever the permission list, and every stored token names   *)
(* a document of its issuing agent's scope.                                 *)
C3_OutOfScopeDocumentRefused ==
    config = "distinct" =>
        /\ (last.op = "request_session_token"
            /\ ~HasEntry(conns[last.conn].token_obj.scope, last.document))
                => (last.error # None /\ last.token = None)
        /\ \A t \in DOMAIN tokens :
                HasEntry(issued[t].agent.token_obj.scope, tokens[t].document)

(* C4: on the proxy path a stored token whose expires_at is earlier than   *)
(* the current time is invalid (401, no session) although its entry is      *)
(* still in the map; a stored token whose expires_at has not passed is      *)
(* accepted as the session of the request.                                  *)
C4_ExpiredTokenInvalid ==
    (last.op = "proxy" /\ last.bearer \in DOMAIN tokens) =>
        IF tokens[last.bearer].expires_at < now
        THEN /\ last.session = NoSession
             /\ last.status = 401
             /\ last.upstream = <<>>
        ELSE last.session = tokens[last.bearer]

(* A token still in the map was presented after its expiry. *)
C4_Witness ==
    /\ last.op = "proxy"
    /\ last.bearer \in DOMAIN tokens
    /\ tokens[last.bearer].expires_at < now
    /\ last.status = 401

(* C5: the lifetime of every token is the requested ttl capped at 3600     *)
(* seconds, and 300 seconds when the caller left the ttl out.               *)
C5_LifetimeCapped ==
    \A t \in DOMAIN tokens :
        LET lifetime == tokens[t].expires_at - tokens[t].created_at
            asked == issued[t].ttl_seconds
        IN  /\ lifetime <= 3600
            /\ asked.given =>
                   lifetime = (IF asked.value < 3600 THEN asked.value ELSE 3600)
            /\ ~asked.given => lifetime = 300

C5_Witness ==
    \E t \in DOMAIN tokens :
        /\ issued[t].ttl_seconds.given
        /\ issued[t].ttl_seconds.value > 3600
        /\ tokens[t].created_at > 0

(* C6: for a known method the dispatcher fails UNAUTHORIZED exactly when   *)
(* the permission the table requires of the method (read, write or schema, *)
(* as listed) is not in the session token's permission list.                *)
C6_DispatchPermission ==
    (Dispatched /\ last.body.method \in KnownMethods) =>
        (last.code = "UNAUTHORIZED"
            <=> ~InList(RequiredPermission(last.body.method),
                        last.session.permissions))

C6_Witness ==
    /\ Dispatched
    /\ last.body.method = "delete_records"
    /\ last.code # "UNAUTHORIZED"
    /\ ~InList("read", last.session.permissions)

(* Credential stores other than the one the server runs with. *)
OtherStores ==
    {Configs[n] : n \in ConfigNames}
        \cup {[documents |-> {"sales", "budget"}, tokens |-> <<>>]}

(* C7: the allow/deny decision of the dispatcher is the same whatever the  *)
(* credential store: the decision observed equals the decision the check    *)
(* takes for the same method and session token under every other store.     *)
C7_DecisionIgnoresStore ==
    Dispatched =>
        \A cfg \in OtherStores :
            (permission_check(last.body.method, last.session, cfg) = "UNAUTHORIZED")
                <=> (last.code = "UNAUTHORIZED")

(* A token whose permission its issuing agent does not hold under another   *)
(* store was allowed.                                                       *)
C7_Witness ==
    /\ Dispatched
    /\ last.body.method \in KnownMethods
    /\ last.code # "UNAUTHORIZED"
    /\ \E cfg \in OtherStores :
        \A a \in Agents(cfg) :
            a.name = last.session.agent_name =>
                authorize(a, last.session.document,
                          RequiredPermission(last.body.method)) # OK

(* C8 (the claim as stated): a connection opened with the token of a       *)
(* configured credential entry is bound to an agent with that token and     *)
(* that entry's name; any other bearer string fails 'Invalid token'.        *)
C8_AuthenticateMatchesEntry ==
    (last.op = "connect" /\ last.bearer \notin {None, ""}) =>
        /\ \A i \in DOMAIN store.tokens :
              store.tokens[i].token = last.bearer =>
                  /\ last.status = 200
                  /\ conns[last.conn].token = last.bearer
                  /\ conns[last.conn].name = store.tokens[i].name
        /\ (\A i \in DOMAIN store.tokens : store.tokens[i].token # last.bearer)
              => last.error = "Invalid token"

(* C9: authorize, as the data tools call it, has three outcomes decided by *)
(* the first scope entry for the document: it passes when that entry lists  *)
(* the permission, fails 'Permission denied' when the entry does not, and   *)
(* fails 'Document not in scope' when no entry names the document.          *)
C9_AuthorizeOutcomes ==
    (last.op = "call_tool" /\ last.authorize # None) =>
        LET scope == conns[last.conn].token_obj.scope
            perm == RequiredPermission(last.name)
        IN  /\ last.authorize \in {OK, "Permission denied", "Document not in scope"}
            /\ ~HasEntry(scope, last.document)
                => last.authorize = "Document not in scope"
            /\ \A i \in DOMAIN scope :
                IsFirstEntry(scope, last.document, i) =>
                    IF InList(perm, scope[i].permissions)
                    THEN last.authorize = OK
                    ELSE last.authorize = "Permission denied"

(* Denied by the first entry although a later entry lists the permission. *)
C9_Witness ==
    /\ last.op = "call_tool"
    /\ last.authorize = "Permission denied"
    /\ \E i \in DOMAIN conns[last.conn].token_obj.scope :
        /\ conns[last.conn].token_obj.scope[i].document = last.document
        /\ InList(RequiredPermission(last.name),
                  conns[last.conn].token_obj.scope[i].permissions)

(* C10: no permission implies another: an agent whose scope entry lists    *)
(* some permission but not the required one is denied by authorize, and a   *)
(* session token that carries some permission but not the required one is   *)
(* denied by the dispatcher.                                                *)
C10_PermissionsIndependent ==
    /\ (last.op = "call_tool" /\ last.authorize # None) =>
        \A i \in DOMAIN conns[last.conn].token_obj.scope :
            (/\ IsFirstEntry(conns[last.conn].token_obj.scope, last.document, i)
             /\ conns[last.conn].token_obj.scope[i].permissions # <<>>
             /\ ~InList(RequiredPermission(last.name),
                        conns[last.conn].token_obj.scope[i].permissions))
                => (last.authorize = "Permission denied" /\ last.upstream = <<>>)
    /\ (/\ Dispatched
        /\ last.body.method \in KnownMethods
        /\ last.session.permissions # <<>>
        /\ ~InList(RequiredPermission(last.body.method), last.session.permissions))
            => (last.code = "UNAUTHORIZED" /\ last.upstream = <<>>)

(* A schema-only token was denied a read method. *)
C10_Witness ==
    /\ Dispatched
    /\ last.session.permissions = <<"schema">>
    /\ last.body.method = "get_records"
    /\ last.code = "UNAUTHORIZED"

(* C11: a JSON object body without a method, or with one of the eight      *)
(* table methods and without a table, is answered INVALID_REQUEST by the    *)
(* parse: neither the method lookup nor the permission check of the         *)
(* dispatcher runs, whatever the token's permissions, and no client call    *)
(* is made.                                                                 *)
C11_ParseBeforePermission ==
    (/\ last.op = "proxy"
     /\ last.session # NoSession
     /\ last.body.kind = "object"
     /\ \/ last.body.method = None
        \/ /\ last.body.method \in
                {"get_records", "describe_table", "add_records", "update_records",
                 "delete_records", "add_column", "modify_column", "delete_column"}
           /\ ~last.body.has_table)
        => /\ last.code = "INVALID_REQUEST"
           /\ last.upstream = <<>>
           /\ ~InList("method", last.steps)
           /\ ~InList("permission", last.steps)

(* get_records without a table, sent with a token that lacks read: a        *)
(* permission check running first would have answered UNAUTHORIZED.         *)
C11_Witness ==
    /\ last.op = "proxy"
    /\ last.session # NoSession
    /\ last.body.kind = "object"
    /\ last.body.method = "get_records"
    /\ ~last.body.has_table
    /\ ~InList("read", last.session.permissions)
    /\ last.code = "INVALID_REQUEST"

(* C12: a request whose method is none of the eleven known methods fails   *)
(* INVALID_REQUEST, never UNAUTHORIZED, whatever permissions the session    *)
(* token carries, and no client call is made.                               *)
C12_UnknownMethodInvalid ==
    (Dispatched /\ RequiredPermission(last.body.method) = None) =>
        /\ last.code = "INVALID_REQUEST"
        /\ last.code # "UNAUTHORIZED"
        /\ last.upstream = <<>>

(* An unknown method sent with a token that carries no permission at all. *)
C12_Witness ==
    /\ Dispatched
    /\ last.body.method = "drop_database"
    /\ last.session.permissions = <<>>
    /\ last.code = "INVALID_REQUEST"

C14_UpstreamErrorWrapped ==
    (last.op = "proxy" /\ InList("upstream_raised", last.steps)) =>
        /\ last.code = "GRIST_ERROR"
        /\ last.raised = None

(* The client raised on a write or on a query. *)
C14_Witness ==
    /\ last.op = "proxy"
    /\ InList("upstream_raised", last.steps)
    /\ last.body.method \in {"add_records", "sql_query"}
    /\ last.code = "GRIST_ERROR"

(* C15: a bearer string that is no key of the session-token map and a       *)
(* stored token that has expired are treated alike: validation gives no     *)
(* session and raises nothing, and the proxy answers both with status 401   *)
(* and code TOKEN_EXPIRED.                                                  *)
C15_UnknownAndExpiredAlike ==
    (/\ last.op = "proxy"
     /\ last.bearer \notin {None, ""}
     /\ \/ last.bearer \notin DOMAIN tokens
        \/ tokens[last.bearer].expires_at < now)
        => /\ last.session = NoSession
           /\ last.raised = None
           /\ last.status = 401
           /\ last.code = "TOKEN_EXPIRED"

(* A string that is no key of the map was answered TOKEN_EXPIRED while the  *)
(* map holds a token that has expired.                                      *)
C15_Witness ==
    /\ last.op = "proxy"
    /\ last.bearer \notin {None, ""}
    /\ last.bearer \notin DOMAIN tokens
    /\ last.code = "TOKEN_EXPIRED"
    /\ \E t \in DOMAIN tokens : tokens[t].expires_at < now

(* C16: an upload reaches the client only with a validated session token    *)
(* whose permission list contains write, a download only with one whose     *)
(* list contains read; a validated token without that permission is         *)
(* answered 403 UNAUTHORIZED and no client call is made.                    *)
C16_AttachmentPermissions ==
    (last.op \in {"upload", "download"}) =>
        LET need == IF last.op = "upload" THEN "write" ELSE "read"
        IN  /\ last.upstream # <<>> =>
                  /\ last.session # NoSession
                  /\ last.session = tokens[last.bearer]
                  /\ InList(need, last.session.permissions)
            /\ (last.session # NoSession /\ ~InList(need, last.session.permissions))
                  => /\ last.status = 403
                     /\ last.code = "UNAUTHORIZED"
                     /\ last.upstream = <<>>

(* An upload with a token that carries read and not write was refused. *)
C16_Witness ==
    /\ last.op = "upload"
    /\ last.session # NoSession
    /\ InList("read", last.session.permissions)
    /\ ~InList("write", last.session.permissions)
    /\ last.request.multipart /\ last.request.has_file
    /\ last.status = 403

(* C17: a successful request_session_token returns the token string,        *)
(* document and permission list of a record that the map holds under        *)
(* exactly that string: its document is the requested document, its         *)
(* permission list the requested list element by element, its agent_name    *)
(* the name of the issuing agent, and its token string starts with sess_.   *)
C17_IssuedRecord ==
    (last.op = "request_session_token" /\ last.error = None) =>
        /\ last.returned.token \in DOMAIN tokens
        /\ LET stored == tokens[last.returned.token]
           IN  /\ stored.token = last.returned.token
               /\ stored.document = last.document
               /\ Len(stored.permissions) = Len(last.permissions)
               /\ \A k \in DOMAIN last.permissions :
                      stored.permissions[k] = last.permissions[k]
               /\ stored.agent_name = conns[last.conn].name
               /\ Len(stored.token) > 5
               /\ SubSeq(stored.token, 1, 5) = "sess_"
               /\ last.returned.document = last.document
               /\ last.returned.permissions = last.permissions
               /\ last.returned.expires_at = stored.expires_at

(* A token was issued for a list that is not in the order of the scope. *)
C17_Witness ==
    /\ last.op = "request_session_token"
    /\ last.error = None
    /\ last.permissions = <<"write", "read">>
    /\ last.returned.token \in DOMAIN tokens

(* What one requested permission string fails with, if it fails: a string   *)
(* that is no permission is invalid, a permission for a document without a  *)
(* scope entry is out of scope, a permission the first entry lacks is       *)
(* denied.                                                                  *)
ElementError(agent, document, perm_str) ==
    IF perm_str \notin {"read", "write", "schema"}
    THEN "Invalid permission: " \o perm_str
    ELSE IF ~HasEntry(agent.token_obj.scope, document)
    THEN "Document not in scope"
    ELSE IF \E i \in DOMAIN agent.token_obj.scope :
                /\ IsFirstEntry(agent.token_obj.scope, document, i)
                /\ InList(perm_str, agent.token_obj.scope[i].permissions)
    THEN OK
    ELSE "Permission denied"

(* C18: a request_session_token call whose list has a failing element       *)
(* reports the error of the first failing element in list order: 'Invalid   *)
(* permission' for a string that is no permission, the Authenticator's      *)
(* error for a permission the agent lacks.                                  *)
C18_FirstFailingElement ==
    (last.op = "request_session_token") =>
        LET agent == conns[last.conn]
            failing == {k \in DOMAIN last.permissions :
                          ElementError(agent, last.document, last.permissions[k]) # OK}
        IN  /\ failing = {} => last.error = None
            /\ \A k \in failing :
                  (\A j \in failing : k <= j) =>
                      last.error = ElementError(agent, last.document,
                                                last.permissions[k])

(* The list holds an unauthorized permission before an invalid string: the  *)
(* Authenticator's error is reported, not 'Invalid permission'.             *)
C18_Witness ==
    /\ last.op = "request_session_token"
    /\ last.permissions = <<"read", "admin">>
    /\ last.error = "Document not in scope"

(* C19: a data tool resolves the document and calls the client only after   *)
(* authorize has passed for the agent, the document and the permission of   *)
(* the tool; when authorize fails, its AuthError is what the tool raises,   *)
(* and nothing is resolved or called, so a document outside the agent's     *)
(* scope gives 'Document not in scope' whether the registry holds it or     *)
(* not.                                                                     *)
C19_AuthorizeBeforeResolve ==
    (last.op \in {"call_tool", "tool"}) =>
        /\ (last.resolved \/ last.upstream # <<>>) => last.authorize = OK
        /\ last.upstream # <<>> => last.resolved
        /\ last.authorize \notin {OK, None} =>
              /\ last.kind = "AuthError"
              /\ last.error = last.authorize
              /\ ~last.resolved
              /\ last.upstream = <<>>
        /\ last.required # None =>
              /\ last.required = RequiredPermission(last.name)
              /\ last.authorize =
                    ElementError(conns[last.conn], last.document, last.required)
              /\ ~HasEntry(conns[last.conn].token_obj.scope, last.document)
                    => last.error = "Document not in scope"
        /\ last.op = "tool" => last.required # None

(* A tool was refused a document that is outside the agent's scope and      *)
(* absent from the registry with the error of authorize, not of the         *)
(* resolution.                                                              *)
C19_Witness ==
    /\ last.op \in {"call_tool", "tool"}
    /\ last.document \notin store.documents
    /\ ~HasEntry(conns[last.conn].token_obj.scope, last.document)
    /\ last.error = "Document not in scope"

(* C20: for each of the eleven operations the permission a data tool        *)
(* passes to authorize is the permission the proxy requires of the session  *)
(* token: every tool that runs checks the permission of METHOD_PERMISSIONS  *)
(* for its name, and the dispatcher denies a method exactly when the token  *)
(* lacks the permission of the tool of that name.                           *)
C20_ChannelsAgree ==
    /\ (last.op \in {"call_tool", "tool"} /\ last.required # None) =>
            /\ last.name \in KnownMethods
            /\ last.required = METHOD_PERMISSIONS(last.name)
    /\ last.op = "tool" => last.required # None
    /\ (Dispatched /\ last.body.method \in DataTools) =>
            (last.code = "UNAUTHORIZED"
                <=> ~InList(TOOL_PERMISSIONS(last.body.method),
                            last.session.permissions))

(* The SQL operation ran on the tool-call channel for an agent that holds   *)
(* read and no other permission on the document.                            *)
C20_Witness ==
    /\ last.op = "call_tool"
    /\ last.name = "sql_query"
    /\ last.required = "read"
    /\ last.authorize = OK
    /\ conns[last.conn].name = "reader"

(* The permission an endpoint's client call stands for: the permission of   *)
(* the operation on the proxy, write for an upload, read for a download.    *)
OperationPermission(op, operation) ==
    IF op = "upload" THEN "write"
    ELSE IF op = "download" THEN "read"
    ELSE RequiredPermission(operation)

(* C21: every client call that the proxy or an attachment endpoint makes    *)
(* for a session token goes to the document of that token and stands for a  *)
(* permission that the first scope entry of the issuing agent lists for     *)
(* that document: the agent that asked for the token would itself have      *)
(* been authorized for the operation.                                       *)
C21_NoEscalation ==
    (last.op \in {"proxy", "upload", "download"} /\ last.upstream # <<>>) =>
        /\ last.bearer \in DOMAIN tokens
        /\ \A k \in DOMAIN last.upstream :
              /\ last.upstream[k][1] = tokens[last.bearer].document
              /\ ElementError(issued[last.bearer].agent,
                              tokens[last.bearer].document,
                              OperationPermission(last.op, last.upstream[k][2])) = OK

(* A write reached the client for a token whose issuing agent has           *)
(* disconnected since.                                                      *)
C21_Witness ==
    /\ last.op \in {"proxy", "upload"}
    /\ last.upstream # <<>>
    /\ OperationPermission(last.op, last.upstream[1][2]) = "write"
    /\ \A c \in ConnIds : conns[c] = NoAgent

(* C22: every client call of the proxy and of the attachment endpoints is   *)
(* made on the document recorded in the session token that was presented,   *)
(* also when the request names another document.                            *)
C22_SingleDocument ==
    (last.op \in {"proxy", "upload", "download"} /\ last.upstream # <<>>) =>
        /\ last.session # NoSession
        /\ last.session = tokens[last.bearer]
        /\ \A k \in DOMAIN last.upstream :
              last.upstream[k][1] = last.session.document

(* A request naming another document reached the document of its token. *)
C22_Witness ==
    /\ last.op = "proxy"
    /\ last.upstream # <<>>
    /\ "document" \in DOMAIN last.body
    /\ last.body.document # last.session.document
    /\ last.body.document \in store.documents

(* C23 (the claim as stated): every proxy request that presents a valid     *)
(* session token is answered with one JSON response, a success or a         *)
(* failure with code INVALID_REQUEST, UNAUTHORIZED or GRIST_ERROR; no       *)
(* exception leaves handle_proxy.                                           *)
C23_AlwaysAnswered ==
    (last.op = "proxy" /\ last.session # NoSession) =>
        /\ last.raised = None
        /\ last.code \in {OK, "INVALID_REQUEST", "UNAUTHORIZED", "GRIST_ERROR"}

(* Step a is taken before step b whenever b is taken. *)
Precedes(a, b, steps) ==
    \A j \in DOMAIN steps :
        steps[j] = b => \E i \in DOMAIN steps : i < j /\ steps[i] = a

(* C24: in the dispatcher the permission check comes before the check of    *)
(* the fields a method requires, and that before the client call: a         *)
(* dispatch that fails UNAUTHORIZED or INVALID_REQUEST has made no client   *)
(* call, and a request that lacks both the permission and a required field  *)
(* fails UNAUTHORIZED.                                                      *)
C24_DispatchOrder ==
    Dispatched =>
        /\ Precedes("permission", "fields", last.steps)
        /\ Precedes("permission", "upstream", last.steps)
        /\ (last.body.method \in
                {"sql_query", "add_records", "update_records", "delete_records",
                 "create_table", "add_column", "modify_column", "delete_column"}
             /\ InList("upstream", last.steps))
                => Precedes("fields", "upstream", last.steps)
        /\ last.code \in {"UNAUTHORIZED", "INVALID_REQUEST"} =>
                /\ last.upstream = <<>>
                /\ ~InList("upstream", last.steps)
        /\ (/\ last.body.method \in KnownMethods
             /\ ~InList(RequiredPermission(last.body.method),
                        last.session.permissions)
             /\ ~last.body.has_fields)
                => last.code = "UNAUTHORIZED"

(* A request without records and without the write permission. *)
C24_Witness ==
    /\ Dispatched
    /\ last.body.method = "add_records"
    /\ ~last.body.has_fields
    /\ ~InList("write", last.session.permissions)
    /\ last.code = "UNAUTHORIZED"

(* C25: handle_proxy looks at the bearer header, then at the session token, *)
(* and only then receives the body: a request without a bearer token is     *)
(* answered 401 INVALID_TOKEN and one whose token is unknown or expired 401 *)
(* TOKEN_EXPIRED, whatever body was sent; neither reads the body or reaches *)
(* the parser, the dispatcher or the client. Every later answer comes after *)
(* both checks, in the order body, JSON, parse, method, permission.         *)
C25_ProxyCheckOrder ==
    last.op = "proxy" =>
        /\ last.bearer \in {None, ""} =>
                /\ last.status = 401 /\ last.code = "INVALID_TOKEN"
                /\ last.steps = <<"bearer">>
        /\ (last.bearer \notin {None, ""}
             /\ (\/ last.bearer \notin DOMAIN tokens
                 \/ tokens[last.bearer].expires_at < now)) =>
                /\ last.status = 401 /\ last.code = "TOKEN_EXPIRED"
                /\ last.steps = <<"bearer", "validate">>
        /\ (\/ last.bearer \in {None, ""}
            \/ last.bearer \notin DOMAIN tokens
            \/ tokens[last.bearer].expires_at < now) =>
                /\ last.body = NotRead
                /\ last.session = NoSession
                /\ last.raised = None
                /\ last.upstream = <<>>
        /\ Precedes("bearer", "validate", last.steps)
        /\ Precedes("validate", "body", last.steps)
        /\ Precedes("body", "json", last.steps)
        /\ Precedes("json", "parse", last.steps)
        /\ Precedes("parse", "method", last.steps)
        /\ Precedes("method", "permission", last.steps)
        /\ Precedes("permission", "upstream", last.steps)

(* An expired session token presented with a body that is no JSON. *)
C25_Witness ==
    /\ last.op = "proxy"
    /\ last.bearer \in DOMAIN tokens
    /\ tokens[last.bearer].expires_at < now
    /\ "sent" \in DOMAIN last
    /\ last.sent.kind = "not_json"
    /\ last.code = "TOKEN_EXPIRED"

(* C26: the token map only grows, and its entries never change: a step      *)
(* keeps every entry as it was; a successful creation adds exactly one      *)
(* entry under a key the map did not hold; every other step (a refused      *)
(* issuance, a validation, a proxy or attachment request, the clock) leaves *)
(* the map as it was.                                                       *)
C26_AppendOnly ==
    [][/\ \A t \in DOMAIN tokens :
            t \in DOMAIN tokens' /\ tokens'[t] = tokens[t]
       /\ IF last'.op = "request_session_token" /\ last'.error = None
          THEN /\ last'.token \notin DOMAIN tokens
               /\ DOMAIN tokens' = DOMAIN tokens \cup {last'.token}
          ELSE tokens' = tokens]_vars

(* A token created while the map holds another one. *)
C26_Witness ==
    /\ last.op = "request_session_token"
    /\ last.error = None
    /\ Cardinality(DOMAIN tokens) >= 2
    /\ \E t \in DOMAIN tokens : t # last.token /\ tokens[t].created_at < now

(* An operation that called authorize once: a data tool that started, or a  *)
(* token request for a single permission.                                   *)
Decides(l) ==
    \/ l.op = "call_tool" /\ l.authorize # None
    \/ l.op = "request_session_token" /\ Len(l.permissions) = 1

(* The permission it asked for, and what authorize answered. *)
DecidedPermission(l) ==
    IF l.op = "request_session_token" THEN l.permissions[1] ELSE l.required

Decision(l) ==
    IF l.op = "request_session_token"
    THEN IF l.error = None THEN OK ELSE l.error
    ELSE l.authorize

(* C27: the credential store never changes: no step changes the             *)
(* configuration, the token map built from it, or the credential an open    *)
(* connection holds; what authorize answers is what the token map's entry   *)
(* for the caller's token says, and two successive calls for the same       *)
(* agent, document and permission get the same answer.                      *)
C27_StoreImmutable ==
    [][/\ config' = config
       /\ token_map(store)' = token_map(store)
       /\ \A c \in ConnIds :
            (conns[c] # NoAgent /\ conns'[c] # NoAgent) => conns'[c] = conns[c]
       /\ \A c \in ConnIds :
            conns'[c] # NoAgent =>
                /\ conns'[c].token \in DOMAIN token_map(store)
                /\ conns'[c].token_obj = token_map(store)[conns'[c].token]
       /\ Decides(last') =>
            Decision(last') =
                ElementError([token_obj |-> token_map(store)[conns'[last'.conn].token]],
                             last'.document, DecidedPermission(last'))
       /\ (/\ Decides(last) /\ Decides(last')
           /\ conns[last.conn] = conns'[last'.conn]
           /\ last.document = last'.document
           /\ DecidedPermission(last) = DecidedPermission(last'))
            => Decision(last) = Decision(last')]_vars

(* A tool call that is allowed right after the same permission on the same  *)
(* document was handed to a session token.                                  *)
C27_Witness ==
    /\ last.op = "call_tool"
    /\ last.name = "list_tables"
    /\ last.document = "sales"
    /\ last.authorize = OK
    /\ \E t \in DOMAIN tokens :
            /\ tokens[t].agent_name = last.agent_name
            /\ tokens[t].document = "sales"
            /\ InList("read", tokens[t].permissions)

(* C28: creations and validations of concurrent tasks do not disturb one    *)
(* another. A completed creation makes the map one entry larger; the new    *)
(* entry holds the document, permissions, agent and lifetime of its own     *)
(* call; every other entry is as before, and so is what validation answers  *)
(* for every other token. A validation answers from the entry of its own    *)
(* token alone and changes what no token validates to.                      *)
C28_CreationsAtomic ==
    [][/\ (last'.op = "request_session_token" /\ last'.error = None) =>
            /\ Cardinality(DOMAIN tokens') = Cardinality(DOMAIN tokens) + 1
            /\ last'.token \in DOMAIN tokens'
            /\ tokens'[last'.token].token = last'.token
            /\ tokens'[last'.token].document = last'.document
            /\ tokens'[last'.token].permissions = last'.permissions
            /\ tokens'[last'.token].agent_name = conns[last'.conn].name
            /\ tokens'[last'.token].created_at = now
            /\ tokens'[last'.token].expires_at
                    = now + Min(tool_ttl(issued'[last'.token].ttl_seconds).value,
                                MAX_TTL_SECONDS)
            /\ \A t \in DOMAIN tokens : tokens'[t] = tokens[t]
            /\ \A b \in SessionBearers \ {last'.token} :
                    validate_token(tokens', b, now') = validate_token(tokens, b, now)
       /\ last'.op = "proxy" =>
            /\ last'.session =
                    IF /\ last'.bearer \in DOMAIN tokens
                       /\ ~(tokens[last'.bearer].expires_at < now)
                    THEN tokens[last'.bearer] ELSE NoSession
            /\ \A b \in SessionBearers :
                    validate_token(tokens', b, now') = validate_token(tokens, b, now)
       /\ \A t \in DOMAIN tokens' :
            /\ tokens'[t].token = t
            /\ tokens'[t].agent_name = issued'[t].agent.name]_vars

(* Two agents have each created a token, and the older token validates. *)
C28_Witness ==
    /\ last.op = "proxy"
    /\ last.session # NoSession
    /\ \E t \in DOMAIN tokens :
            /\ t # last.bearer
            /\ tokens[t].agent_name # last.session.agent_name
            /\ tokens[t].created_at > last.session.created_at

DataToolFailure(agent, name, document) ==
    IF name \in {"add_column", "modify_column"}
    THEN "Error: got an unexpected keyword argument 'label'"
    ELSE IF ElementError(agent, document, RequiredPermission(name)) # OK
    THEN "Authorization error: "
            \o ElementError(agent, document, RequiredPermission(name))
    ELSE IF document \notin store.documents
    THEN "Authorization error: Document '" \o document \o "' not configured"
    ELSE OK

(* C30: call_tool answers every call with a text. A tool that raises        *)
(* AuthError is answered 'Authorization error: ' and the message, any other *)
(* exception 'Error: ' and the message, a name no branch matches 'Unknown   *)
(* tool: ' and the name, and a token request to a server without a token    *)
(* manager 'Session tokens not enabled'. A call answered with any of these  *)
(* leaves the token map as it was.                                          *)
C30_CallToolAnswers ==
    [][(last'.op \in {"call_tool", "request_session_token"} /\ last' # last) =>
        /\ last'.text # None
        /\ last'.text # "result" => tokens' = tokens
        /\ last'.op = "request_session_token" =>
                LET bad == {i \in DOMAIN last'.permissions :
                                ElementError(conns[last'.conn], last'.document,
                                             last'.permissions[i]) # OK}
                IN  IF bad = {}
                    THEN last'.text = "result" /\ last'.token \in DOMAIN tokens'
                    ELSE last'.text = "Authorization error: " \o
                            ElementError(conns[last'.conn], last'.document,
                                last'.permissions[CHOOSE i \in bad :
                                                    \A j \in bad : i <= j])
        /\ (last'.op = "call_tool" /\ last'.name \in DataTools) =>
                IF DataToolFailure(conns[last'.conn], last'.name,
                                   last'.document) # OK
                THEN last'.text = DataToolFailure(conns[last'.conn], last'.name,
                                                  last'.document)
                ELSE last'.text \in {"result", "Error: upstream failure"}
        /\ (last'.op = "call_tool" /\ last'.name \notin ToolNames) =>
                last'.text = "Unknown tool: " \o last'.name
        /\ (last'.op = "call_tool" /\ last'.name = "request_session_token") =>
                last'.text = "Session tokens not enabled"]_vars

(* A token request is refused while the map holds a token. *)
C30_Witness ==
    /\ last.op = "request_session_token"
    /\ last.text = "Authorization error: Permission denied"
    /\ last.token = None
    /\ tokens # << >>

====
